---- MODULE Spec2Model ----
(***************************************************************************)
(* Model of aeg_v2.py: the fitness function calcular_aptidao, the          *)
(* evolutionary operators selecao, cruzamento and mutacao, and the main    *)
(* generation loop.                                                        *)
(*                                                                         *)
(* Numbers.  The program computes with float64; the model computes with    *)
(* fixed-point integers.  Every gene is held in tenths of its unit: a      *)
(* radius or position of 5 is 0.5 m, a current of 10^7 is 10^6 A.  Field   *)
(* values are held in millitesla, the coefficient of variation in          *)
(* thousandths and a fitness in whole units, truncated.                    *)
(*                                                                         *)
(* Objects.  A chromosome is a numpy array, a mutable object that          *)
(* populacao, nova_populacao, pai1, pai2, filho1 and filho2 refer to.      *)
(* heap[r] holds the genes of the array with reference r; the lists and    *)
(* the locals hold references.                                             *)
(***************************************************************************)
EXTENDS Integers, Sequences, FiniteSets, TLC

\* ------------------------------------------------------------------------
\* Parameters (section 1 of the program)

\* 4 * pi * 1e-7, scaled to give millitesla from tenths of metres and amperes
MU_0 == 12566
\* number of coils of a design (6 in the program)
NUM_BOBINAS == 3
\* number of points of Z_AVALIACAO (100 in the program)
NUM_AMOSTRAS == 3
\* np.linspace(-1, 1, NUM_AMOSTRAS), in tenths of a metre
Z_AVALIACAO == [k \in 1..NUM_AMOSTRAS |->
                  IF NUM_AMOSTRAS = 1 THEN -10
                  ELSE -10 + (20 * (k - 1)) \div (NUM_AMOSTRAS - 1)]
\* 0.5 m
RAIO_MINIMO == 5
\* 0.2 m
DISTANCIA_MIN_BOBINAS == 2
\* the value calcular_aptidao returns for a structurally invalid chromosome
SENTINELA == -1000000000
\* the 1e-9 added to the coefficient of variation: one unit of its last place
EPSILON == 1
\* the strength floor 0.1 T, in millitesla
PISO_CAMPO == 100
\* the score 0.1 returned below the strength floor, truncated to whole units
APTIDAO_PISO == 0
\* penalty of one pair of coils closer than DISTANCIA_MIN_BOBINAS
PENALIDADE_PAR == 5000

\* ------------------------------------------------------------------------
\* Bounds of the model

\* genes perturbed by mutacao over one run, at most
MaxMutacoes == 1
\* calls of cruzamento that recombine over one run, at most
MaxCruzamentos == 1
\* values np.random.normal(0, 0.2) takes in the model, in tenths
Ruidos == {-1, 1}
\* coils inicializar_populacao samples in the model: radius in [0.5, 2.0],
\* position in [-2, 2], current in [1e6, 1e7]
BobinasIniciais ==
  <<<<5, -4, 10000000>>, <<6, 0, 20000000>>, <<5, 4, 10000000>>, <<7, 2, 30000000>>>>
\* chromosomes inicializar_populacao samples in the model
NumCromossomosIniciais == 3
\* the parameters of the runs the model explores: TAMANHO_POPULACAO (100 in the
\* program), TAMANHO_TORNEIO (3 in the program) and NUM_GERACOES (250 in the
\* program)
Configuracoes ==
  {[TAMANHO_POPULACAO |-> 2, TAMANHO_TORNEIO |-> 2, NUM_GERACOES |-> 3],
   [TAMANHO_POPULACAO |-> 2, TAMANHO_TORNEIO |-> 1, NUM_GERACOES |-> 1]}

\* ------------------------------------------------------------------------
\* Arithmetic helpers

Abs(x) == IF x < 0 THEN -x ELSE x

\* the largest r in lo..hi with r * r <= n (lo * lo <= n)
IsqrtEntre[n \in Nat, lo \in Nat, hi \in Nat] ==
  IF lo >= hi THEN lo
  ELSE LET mid == (lo + hi + 1) \div 2
       IN  IF mid * mid <= n THEN IsqrtEntre[n, mid, hi]
           ELSE IsqrtEntre[n, lo, mid - 1]

\* floor of the square root
Isqrt(n) == IsqrtEntre[n, 0, IF n < 46340 THEN n ELSE 46340]

\* sum of the first k entries of a sequence
Soma[s \in Seq(Int), k \in Nat] == IF k = 0 THEN 0 ELSE s[k] + Soma[s, k - 1]

\* np.mean
Media[s \in Seq(Int)] == Soma[s, Len(s)] \div Len(s)

\* the squares of the distances of the entries of s to m
Quadrados[s \in Seq(Int), m \in Int] ==
  [k \in 1..Len(s) |-> (s[k] - m) * (s[k] - m)]

\* np.std: the population standard deviation
DesvioPadrao[s \in Seq(Int)] == Isqrt(Media[Quadrados[s, Media[s]]])

\* ------------------------------------------------------------------------
\* Fitness (section 2 of the program)

\* field of one ring on the Z axis, in millitesla
calcular_campo_eixo_z(z, raio, z_bobina, corrente) ==
  LET x == raio * raio + (z - z_bobina) * (z - z_bobina)
  IN  (MU_0 * (corrente \div 100000) * raio * raio) \div (2 * 100 * Isqrt(x * x * x))

\* cromossomo.reshape((NUM_BOBINAS, 3)): row b is <<raio, z_pos, corrente>>
Reshape(cromossomo) ==
  [b \in 1..NUM_BOBINAS |->
     <<cromossomo[3 * b - 2], cromossomo[3 * b - 1], cromossomo[3 * b]>>]

\* a variant of the test of line 47 that lets a coil without current through
BobinaInvalidaSoNegativa(raio, corrente) == raio < RAIO_MINIMO \/ corrente < 0

\* the test of line 47
BobinaInvalida(raio, corrente) == raio < RAIO_MINIMO \/ corrente <= 0

\* the loop of lines 46-48 from coil b on: the early return of the sentinel at
\* the first invalid coil, campo_total otherwise
LoopBobinas[bobinas \in Seq(Seq(Int)), b \in Nat, campo_total \in Seq(Int)] ==
  IF b > NUM_BOBINAS THEN [retorna |-> FALSE, campo_total |-> campo_total]
  ELSE LET raio == bobinas[b][1]
           z_pos == bobinas[b][2]
           corrente == bobinas[b][3]
       IN  IF BobinaInvalida(raio, corrente)
           THEN [retorna |-> TRUE, campo_total |-> campo_total]
           ELSE LoopBobinas[bobinas, b + 1,
                  [k \in 1..NUM_AMOSTRAS |->
                     campo_total[k]
                       + calcular_campo_eixo_z(Z_AVALIACAO[k], raio, z_pos, corrente)]]

\* a variant of the test of line 63 that counts a pair at the minimum distance
MuitoProximasOuNoLimite(z_i, z_j) == Abs(z_i - z_j) <= DISTANCIA_MIN_BOBINAS

\* the test of line 63
MuitoProximas(z_i, z_j) == Abs(z_i - z_j) < DISTANCIA_MIN_BOBINAS

RECURSIVE LoopPenalidade(_, _, _, _)
\* the nested loops of lines 61-64, from the pair (i, j) on
LoopPenalidade(posicoes_z, i, j, penalidade) ==
  IF i > NUM_BOBINAS THEN penalidade
  ELSE IF j > NUM_BOBINAS THEN LoopPenalidade(posicoes_z, i + 1, i + 2, penalidade)
  ELSE LoopPenalidade(posicoes_z, i, j + 1,
         IF MuitoProximas(posicoes_z[i], posicoes_z[j])
         THEN penalidade + PENALIDADE_PAR
         ELSE penalidade)

\* the penalty of lines 59-64
Penalidade(bobinas) ==
  LoopPenalidade([b \in 1..NUM_BOBINAS |-> bobinas[b][2]], 1, 2, 0)

\* (1.0 * media_campo) * (5.0 * aptidao_uniformidade) of line 66, with
\* aptidao_uniformidade = 1 / (coef_variacao + 1e-9)
Produto[campo_total \in Seq(Int)] ==
  LET media_campo == Media[campo_total]
      desvio_padrao == DesvioPadrao[campo_total]
      coef_variacao == (desvio_padrao * 1000) \div media_campo
  IN  ((1 * media_campo) * 5) \div (coef_variacao + EPSILON)

calcular_aptidao(cromossomo) ==
  LET bobinas == Reshape(cromossomo)
      laco == LoopBobinas[bobinas, 1, [k \in 1..NUM_AMOSTRAS |-> 0]]
  IN  IF laco.retorna THEN SENTINELA
      ELSE IF Media[laco.campo_total] < PISO_CAMPO THEN APTIDAO_PISO
      ELSE Produto[laco.campo_total] - Penalidade(bobinas)

\* ------------------------------------------------------------------------
\* State of a run (sections 3 and 4 of the program)

VARIABLES
  config,            \* the parameters the run was started with
  heap,              \* heap[r]: the genes of the array with reference r
  populacao,         \* list of references
  aptidoes,          \* list of fitness values, parallel to populacao
  nova_populacao,    \* list of references
  pai1, pai2,        \* references (NULO: not assigned)
  filho1, filho2,    \* references (NULO: not assigned)
  selecionados,      \* the indices drawn at line 84, where a call is observed
  ponto,             \* the cut of the call of cruzamento that returned last (0: none)
  geracao,           \* the loop variable of line 109
  casal,             \* iterations of the loop of line 113 done in this generation
  pc,                \* the statement to run next
  aptidoes_finais,   \* line 128
  melhor_individuo,  \* line 129, a reference
  aptidoes_iniciais, \* history: the fitness values of the initial population
  avaliacoes,        \* history: evaluations of a whole population done so far
  mutacoes,          \* history: genes perturbed so far
  cruzamentos        \* history: calls of cruzamento that recombined so far

vars == <<config, heap, populacao, aptidoes, nova_populacao, pai1, pai2, filho1,
          filho2, selecionados, ponto, geracao, casal, pc, aptidoes_finais,
          melhor_individuo, aptidoes_iniciais, avaliacoes, mutacoes, cruzamentos>>

NULO == 0

\* the length of a chromosome
Comprimento == NUM_BOBINAS * 3

\* the chromosomes inicializar_populacao samples in the model: chromosome o
\* holds the sample coils o, o + 1, ... in turn
CromossomosIniciais ==
  {[k \in 1..Comprimento |->
      BobinasIniciais[((o - 1 + ((k - 1) \div 3)) % Len(BobinasIniciais)) + 1]
                     [((k - 1) % 3) + 1]] :
     o \in 1..NumCromossomosIniciais}

\* lines 72-81: a list of tamanho new arrays
inicializar_populacao(tamanho) == [1..tamanho -> CromossomosIniciais]

\* [calcular_aptidao(ind) for ind in populacao], lines 110 and 128
AvaliarPopulacao(h, pop) == [k \in 1..Len(pop) |-> calcular_aptidao(h[pop[k]])]

\* np.random.choice(n, k, replace=False): k distinct indices, in draw order
Choice(n, k) ==
  {s \in [1..k -> 1..n] : \A a, b \in 1..k : a # b => s[a] # s[b]}

RECURSIVE LoopMaxUltimo(_, _, _, _)
\* a variant of max that returns the last of the entries with the greatest key
LoopMaxUltimo(s, chave, k, melhor) ==
  IF k > Len(s) THEN melhor
  ELSE LoopMaxUltimo(s, chave, k + 1,
                     IF chave[s[k]] >= chave[melhor] THEN s[k] ELSE melhor)

RECURSIVE LoopMax(_, _, _, _)
\* max(s, key=...): the first of the entries with the greatest key
LoopMax(s, chave, k, melhor) ==
  IF k > Len(s) THEN melhor
  ELSE LoopMax(s, chave, k + 1, IF chave[s[k]] > chave[melhor] THEN s[k] ELSE melhor)

\* a variant of max that returns the first entry
PyMaxPrimeiro(s, chave) == s[1]

PyMax(s, chave) == LoopMax(s, chave, 2, s[1])

\* lines 85-86 of selecao, for the draw sel of line 84
selecao(pop, apt, sel) == pop[PyMax(sel, apt)]

\* a variant of np.argmax that returns the last index
ArgMaxUltimo(s) == Len(s)

\* np.argmax: the first index of the greatest entry
ArgMax(s) == PyMax([k \in 1..Len(s) |-> k], s)

\* np.random.randint(low, high): high is exclusive
randint(low, high) == low..(high - 1)

\* np.concatenate([a[:ponto], b[ponto:]]), a new array
Concatenar(a, b, p) == SubSeq(a, 1, p) \o SubSeq(b, p + 1, Len(b))

\* a variant of mutacao without the clamp of lines 100-101
mutacaoSemLimite(cromossomo, sorteio) ==
  [k \in 1..Len(cromossomo) |->
     IF k \in DOMAIN sorteio THEN cromossomo[k] + sorteio[k] ELSE cromossomo[k]]

\* lines 97-102 on the genes of one array; sorteio[k] is the noise drawn for
\* gene k, for the genes whose draw fell below TAXA_MUTACAO
mutacao(cromossomo, sorteio) ==
  [k \in 1..Len(cromossomo) |->
     IF k \in DOMAIN sorteio
     THEN LET novo == cromossomo[k] + sorteio[k]
          IN  IF (k - 1) % 3 = 0 /\ novo < RAIO_MINIMO THEN RAIO_MINIMO ELSE novo
     ELSE cromossomo[k]]

RECURSIVE Subconjuntos(_, _)
\* the subsets of 1..n of at most m elements
Subconjuntos(n, m) ==
  IF n = 0 \/ m = 0 THEN {{}}
  ELSE Subconjuntos(n - 1, m) \cup {T \cup {n} : T \in Subconjuntos(n - 1, m - 1)}

\* the draws of one call of mutacao the model allows: the genes whose draw
\* fell below TAXA_MUTACAO, each with its noise
Sorteios(n) ==
  UNION {[S -> Ruidos] : S \in Subconjuntos(n, MaxMutacoes - mutacoes)}

RECURSIVE Distintos(_)
\* the entries of a list, each once, in the order of their first occurrence
Distintos(s) ==
  IF s = <<>> THEN <<>>
  ELSE LET d == Distintos(SubSeq(s, 1, Len(s) - 1))
           x == s[Len(s)]
       IN  IF \E k \in 1..Len(d) : d[k] = x THEN d ELSE Append(d, x)

Indice(s, x) == CHOOSE k \in 1..Len(s) : s[k] = x

\* ------------------------------------------------------------------------
\* Initial states: line 107 has run

InitCom(c) ==
  /\ config = c
  /\ heap \in inicializar_populacao(c.TAMANHO_POPULACAO)
  /\ populacao = [k \in 1..c.TAMANHO_POPULACAO |-> k]
  /\ aptidoes = <<>>
  /\ nova_populacao = <<>>
  /\ pai1 = NULO /\ pai2 = NULO /\ filho1 = NULO /\ filho2 = NULO
  /\ selecionados = <<>>
  /\ ponto = 0
  /\ geracao = 0
  /\ casal = 0
  /\ pc = "avaliar"
  /\ aptidoes_finais = <<>>
  /\ melhor_individuo = NULO
  /\ aptidoes_iniciais = <<>>
  /\ avaliacoes = 0
  /\ mutacoes = 0
  /\ cruzamentos = 0

Init == \E c \in Configuracoes : InitCom(c)

\* ------------------------------------------------------------------------
\* Steps of the main loop

\* line 110 and line 112, in an iteration of the loop of line 109
Avaliar ==
  /\ pc = "avaliar"
  /\ geracao < config.NUM_GERACOES
  /\ aptidoes' = AvaliarPopulacao(heap, populacao)
  /\ aptidoes_iniciais' = IF geracao = 0 THEN aptidoes' ELSE aptidoes_iniciais
  /\ avaliacoes' = avaliacoes + 1
  /\ nova_populacao' = <<>>
  /\ casal' = 0
  /\ pc' = IF config.TAMANHO_POPULACAO \div 2 > 0 THEN "selecao1" ELSE "substituir"
  /\ UNCHANGED <<config, heap, populacao, pai1, pai2, filho1, filho2, selecionados,
                 ponto, geracao, aptidoes_finais, melhor_individuo, mutacoes,
                 cruzamentos>>

\* line 114; np.random.choice raises ValueError for a sample larger than the
\* population
Selecao1 ==
  /\ pc = "selecao1"
  /\ IF config.TAMANHO_TORNEIO > Len(populacao)
     THEN pc' = "erro" /\ pai1' = pai1
     ELSE \E sel \in Choice(Len(populacao), config.TAMANHO_TORNEIO) :
            /\ pai1' = selecao(populacao, aptidoes, sel)
            /\ pc' = "selecao2"
  /\ UNCHANGED <<config, heap, populacao, aptidoes, nova_populacao, pai2, filho1,
                 filho2, selecionados, ponto, geracao, casal, aptidoes_finais,
                 melhor_individuo, aptidoes_iniciais, avaliacoes, mutacoes,
                 cruzamentos>>

\* line 115
Selecao2 ==
  /\ pc = "selecao2"
  /\ IF config.TAMANHO_TORNEIO > Len(populacao)
     THEN pc' = "erro" /\ pai2' = pai2
     ELSE \E sel \in Choice(Len(populacao), config.TAMANHO_TORNEIO) :
            /\ pai2' = selecao(populacao, aptidoes, sel)
            /\ pc' = "cruzamento"
  /\ UNCHANGED <<config, heap, populacao, aptidoes, nova_populacao, pai1, filho1,
                 filho2, selecionados, ponto, geracao, casal, aptidoes_finais,
                 melhor_individuo, aptidoes_iniciais, avaliacoes, mutacoes,
                 cruzamentos>>

\* lines 88-94, called at line 116: two new arrays when the draw falls below
\* TAXA_CRUZAMENTO, the two parents themselves otherwise
Cruzamento ==
  /\ pc = "cruzamento"
  /\ \/ \E p \in randint(1, Len(heap[pai1]) - 1) :
          /\ cruzamentos < MaxCruzamentos
          /\ cruzamentos' = cruzamentos + 1
          /\ ponto' = p
          /\ heap' = heap \o <<Concatenar(heap[pai1], heap[pai2], p),
                               Concatenar(heap[pai2], heap[pai1], p)>>
          /\ filho1' = Len(heap) + 1
          /\ filho2' = Len(heap) + 2
     \/ /\ cruzamentos' = cruzamentos
        /\ ponto' = 0
        /\ heap' = heap
        /\ filho1' = pai1
        /\ filho2' = pai2
  /\ pc' = "mutacao1"
  /\ UNCHANGED <<config, populacao, selecionados, aptidoes, nova_populacao, pai1, pai2, geracao,
                 casal, aptidoes_finais, melhor_individuo, aptidoes_iniciais,
                 avaliacoes, mutacoes>>

\* line 117: mutacao changes the array filho1 refers to and returns it
Mutacao1 ==
  /\ pc = "mutacao1"
  /\ \E sorteio \in Sorteios(Len(heap[filho1])) :
       /\ heap' = [heap EXCEPT ![filho1] = mutacao(heap[filho1], sorteio)]
       /\ mutacoes' = mutacoes + Cardinality(DOMAIN sorteio)
  /\ nova_populacao' = Append(nova_populacao, filho1)
  /\ ponto' = 0
  /\ pc' = "mutacao2"
  /\ UNCHANGED <<config, populacao, aptidoes, pai1, pai2, filho1, filho2,
                 selecionados, geracao, casal, aptidoes_finais, melhor_individuo,
                 aptidoes_iniciais, avaliacoes, cruzamentos>>

\* line 118, and the end of one iteration of the loop of line 113; pai1, pai2,
\* filho1 and filho2 are assigned again before they are next read
Mutacao2 ==
  /\ pc = "mutacao2"
  /\ \E sorteio \in Sorteios(Len(heap[filho2])) :
       /\ heap' = [heap EXCEPT ![filho2] = mutacao(heap[filho2], sorteio)]
       /\ mutacoes' = mutacoes + Cardinality(DOMAIN sorteio)
  /\ nova_populacao' = Append(nova_populacao, filho2)
  /\ casal' = casal + 1
  /\ pai1' = NULO /\ pai2' = NULO /\ filho1' = NULO /\ filho2' = NULO
  /\ pc' = IF casal + 1 < config.TAMANHO_POPULACAO \div 2 THEN "selecao1"
           ELSE "substituir"
  /\ UNCHANGED <<config, populacao, aptidoes, selecionados, ponto, geracao,
                 aptidoes_finais, melhor_individuo, aptidoes_iniciais, avaliacoes,
                 cruzamentos>>

\* line 119: populacao = nova_populacao.  The arrays no list refers to any more
\* are freed; the references of the others are renumbered in list order.
Substituir ==
  /\ pc = "substituir"
  /\ LET vivos == Distintos(nova_populacao)
     IN  /\ heap' = [k \in 1..Len(vivos) |-> heap[vivos[k]]]
         /\ populacao' = [k \in 1..Len(nova_populacao) |->
                            Indice(vivos, nova_populacao[k])]
  /\ nova_populacao' = <<>>
  /\ geracao' = geracao + 1
  /\ pc' = "avaliar"
  /\ UNCHANGED <<config, aptidoes, pai1, pai2, filho1, filho2, selecionados, ponto,
                 casal, aptidoes_finais, melhor_individuo, aptidoes_iniciais,
                 avaliacoes, mutacoes, cruzamentos>>

\* lines 128-129, after the loop of line 109; np.argmax raises ValueError for an
\* empty list
Final ==
  /\ pc = "avaliar"
  /\ geracao >= config.NUM_GERACOES
  /\ aptidoes_finais' = AvaliarPopulacao(heap, populacao)
  /\ avaliacoes' = avaliacoes + 1
  /\ IF populacao = <<>>
     THEN pc' = "erro" /\ melhor_individuo' = melhor_individuo
     ELSE /\ melhor_individuo' = populacao[ArgMax(aptidoes_finais')]
          /\ pc' = "fim"
  /\ UNCHANGED <<config, heap, populacao, aptidoes, nova_populacao, pai1, pai2,
                 filho1, filho2, selecionados, ponto, geracao, casal,
                 aptidoes_iniciais, mutacoes, cruzamentos>>

Next ==
  \/ Avaliar
  \/ Selecao1
  \/ Selecao2
  \/ Cruzamento
  \/ Mutacao1
  \/ Mutacao2
  \/ Substituir
  \/ Final

Spec == Init /\ [][Next]_vars

\* ------------------------------------------------------------------------
\* calcular_aptidao on its own: one call on a chromosome of any content

\* the coils of the chromosomes the call is made on: radii below and at the
\* minimum, positions 0.1 m apart, currents that are zero, weak and nominal
BobinasDeTeste == {4, 5} \X {0, 1, 2, 3} \X {0, 100000, 10000000}

CromossomosDeTeste ==
  {[k \in 1..Comprimento |-> f[((k - 1) \div 3) + 1][((k - 1) % 3) + 1]] :
     f \in [1..NUM_BOBINAS -> BobinasDeTeste]}

InitNeutro ==
  /\ aptidoes = <<>>
  /\ nova_populacao = <<>>
  /\ pai1 = NULO /\ pai2 = NULO /\ filho1 = NULO /\ filho2 = NULO
  /\ selecionados = <<>>
  /\ ponto = 0
  /\ geracao = 0
  /\ casal = 0
  /\ aptidoes_finais = <<>>
  /\ melhor_individuo = NULO
  /\ aptidoes_iniciais = <<>>
  /\ avaliacoes = 0
  /\ mutacoes = 0
  /\ cruzamentos = 0

InitAptidao ==
  /\ config = [TAMANHO_POPULACAO |-> 1, TAMANHO_TORNEIO |-> 1, NUM_GERACOES |-> 0]
  /\ heap \in [1..1 -> CromossomosDeTeste]
  /\ populacao = <<1>>
  /\ pc = "aptidao"
  /\ InitNeutro

\* one call of calcular_aptidao, on the only chromosome
ChamarAptidao ==
  /\ pc = "aptidao"
  /\ aptidoes' = AvaliarPopulacao(heap, populacao)
  /\ pc' = "avaliado"
  /\ UNCHANGED <<config, heap, populacao, nova_populacao, pai1, pai2, filho1,
                 filho2, selecionados, ponto, geracao, casal, aptidoes_finais,
                 melhor_individuo, aptidoes_iniciais, avaliacoes, mutacoes,
                 cruzamentos>>

SpecAptidao == InitAptidao /\ [][ChamarAptidao]_vars

\* ------------------------------------------------------------------------
\* selecao on its own: one call on an evaluated initial population, the draw
\* of line 84 kept in selecionados

InitSelecao ==
  /\ config = [TAMANHO_POPULACAO |-> 4, TAMANHO_TORNEIO |-> 3, NUM_GERACOES |-> 1]
  /\ heap \in inicializar_populacao(4)
  /\ populacao = <<1, 2, 3, 4>>
  /\ pc = "selecao"
  /\ aptidoes = AvaliarPopulacao(heap, populacao)
  /\ nova_populacao = <<>>
  /\ pai1 = NULO /\ pai2 = NULO /\ filho1 = NULO /\ filho2 = NULO
  /\ selecionados = <<>>
  /\ ponto = 0
  /\ geracao = 0
  /\ casal = 0
  /\ aptidoes_finais = <<>>
  /\ melhor_individuo = NULO
  /\ aptidoes_iniciais = aptidoes
  /\ avaliacoes = 1
  /\ mutacoes = 0
  /\ cruzamentos = 0

ChamarSelecao ==
  /\ pc = "selecao"
  /\ \E sel \in Choice(Len(populacao), config.TAMANHO_TORNEIO) :
       /\ selecionados' = sel
       /\ pai1' = selecao(populacao, aptidoes, sel)
  /\ pc' = "selecionado"
  /\ UNCHANGED <<config, heap, populacao, aptidoes, nova_populacao, pai2, filho1,
                 filho2, ponto, geracao, casal, aptidoes_finais, melhor_individuo,
                 aptidoes_iniciais, avaliacoes, mutacoes, cruzamentos>>

SpecSelecao == InitSelecao /\ [][ChamarSelecao]_vars

\* ------------------------------------------------------------------------
\* C1: calcular_aptidao returns the sentinel exactly for the chromosomes with
\* a coil of radius below RAIO_MINIMO or of current <= 0, whichever coil it is
\* and whatever the other coils hold; for every other chromosome the result is
\* greater than the sentinel, and no lower than minus the penalty of all pairs.

Invalido(cromossomo) ==
  \E b \in 1..NUM_BOBINAS :
    cromossomo[3 * b - 2] < RAIO_MINIMO \/ cromossomo[3 * b] <= 0

NumPares == (NUM_BOBINAS * (NUM_BOBINAS - 1)) \div 2

SentinelaSseInvalido ==
  pc = "avaliado" =>
    LET c == heap[populacao[1]]
    IN  /\ (aptidoes[1] = SENTINELA) <=> Invalido(c)
        /\ ~Invalido(c) =>
             aptidoes[1] > SENTINELA /\ aptidoes[1] >= 0 - NumPares * 5000

\* a chromosome whose last coil alone is invalid, by its current, was evaluated
WitnessSentinela ==
  /\ pc = "avaliado"
  /\ LET c == heap[populacao[1]]
     IN  /\ \A b \in 1..(NUM_BOBINAS - 1) :
               c[3 * b - 2] >= RAIO_MINIMO /\ c[3 * b] > 0
         /\ c[Comprimento - 2] >= RAIO_MINIMO
         /\ c[Comprimento] <= 0
  /\ aptidoes[1] = SENTINELA

\* ------------------------------------------------------------------------
\* C2: for a valid chromosome whose mean field reaches the floor, the fitness
\* is the product term minus 5000 for each unordered pair of coils closer than
\* DISTANCIA_MIN_BOBINAS, a pair at exactly that distance not counted; with no
\* such pair the fitness is the product term.

ParesProximos(cromossomo) ==
  {par \in (1..NUM_BOBINAS) \X (1..NUM_BOBINAS) :
     /\ par[1] < par[2]
     /\ Abs(cromossomo[3 * par[1] - 1] - cromossomo[3 * par[2] - 1])
          < DISTANCIA_MIN_BOBINAS}

CampoTotal(cromossomo) ==
  [k \in 1..NUM_AMOSTRAS |->
     LET campos == [b \in 1..NUM_BOBINAS |->
                      calcular_campo_eixo_z(Z_AVALIACAO[k], cromossomo[3 * b - 2],
                                            cromossomo[3 * b - 1], cromossomo[3 * b])]
     IN  Soma[campos, NUM_BOBINAS]]

VencedorDoTorneio ==
  [][pc = "selecao" =>
       /\ populacao' = populacao /\ aptidoes' = aptidoes /\ heap' = heap
       /\ Len(selecionados') = config.TAMANHO_TORNEIO
       /\ \A a \in 1..Len(selecionados') : selecionados'[a] \in 1..Len(populacao)
       /\ \A a, b \in 1..Len(selecionados') :
            a # b => selecionados'[a] # selecionados'[b]
       /\ \E a \in 1..Len(selecionados') :
            /\ pai1' = populacao[selecionados'[a]]
            /\ \A b \in 1..Len(selecionados') :
                 aptidoes[selecionados'[a]] >= aptidoes[selecionados'[b]]
            /\ \A b \in 1..(a - 1) :
                 aptidoes[selecionados'[b]] < aptidoes[selecionados'[a]]]_vars

\* a call returned whose first drawn index holds the greatest fitness and
\* shares it with a later drawn index
WitnessTorneio ==
  /\ pc = "selecionado"
  /\ pai1 = populacao[selecionados[1]]
  /\ \E b \in 2..Len(selecionados) :
       aptidoes[selecionados[b]] = aptidoes[selecionados[1]]
  /\ \E b \in 2..Len(selecionados) :
       aptidoes[selecionados[b]] < aptidoes[selecionados[1]]

\* ------------------------------------------------------------------------
\* Runs started with a degenerate configuration

ConfiguracoesDegeneradas ==
  {[TAMANHO_POPULACAO |-> 3, TAMANHO_TORNEIO |-> 3, NUM_GERACOES |-> 2],
   [TAMANHO_POPULACAO |-> 3, TAMANHO_TORNEIO |-> 2, NUM_GERACOES |-> 1],
   [TAMANHO_POPULACAO |-> 2, TAMANHO_TORNEIO |-> 3, NUM_GERACOES |-> 1]}

InitConfig == \E c \in ConfiguracoesDegeneradas : InitCom(c)

SpecConfig == InitConfig /\ [][Next]_vars

\* the scheduling of the program: a statement that can run does run
FairSpec == Spec /\ WF_vars(Next)

\* ------------------------------------------------------------------------
\* C3: cruzamento draws its cut from the whole of 1..L-1 and no other index;
\* the children are the parents with the tails from the cut on swapped, so each
\* has length L, takes a gene from each parent, and has gene k from gene k of
\* a parent.

CorteEmTodaFaixa ==
  /\ pc = "cruzamento" =>
       randint(1, Len(heap[pai1]) - 1) = 1..(Len(heap[pai1]) - 1)
  /\ (pc = "mutacao1" /\ ponto # 0) =>
       LET L == Len(heap[pai1])
       IN  /\ ponto \in 1..(L - 1)
           /\ Len(heap[filho1]) = L /\ Len(heap[filho2]) = L
           /\ \A k \in 1..L :
                /\ heap[filho1][k] = (IF k <= ponto THEN heap[pai1][k] ELSE heap[pai2][k])
                /\ heap[filho2][k] = (IF k <= ponto THEN heap[pai2][k] ELSE heap[pai1][k])

\* ------------------------------------------------------------------------
\* C5: the run does NUM_GERACOES generations, each an evaluation and a
\* reproduction, then one more evaluation of the last population, and halts;
\* the best candidate reported is a member of the last population whose final
\* fitness no other member exceeds.

TerminaComMelhor ==
  /\ <>(pc = "fim")
  /\ [](pc = "fim" =>
          /\ geracao = config.NUM_GERACOES
          /\ avaliacoes = config.NUM_GERACOES + 1
          /\ aptidoes_finais = AvaliarPopulacao(heap, populacao)
          /\ \E i \in 1..Len(populacao) :
               /\ melhor_individuo = populacao[i]
               /\ \A j \in 1..Len(populacao) :
                    aptidoes_finais[i] >= aptidoes_finais[j])

\* a run of at least two generations ended with a last population whose
\* members differ in fitness
WitnessTermina ==
  /\ pc = "fim"
  /\ geracao = config.NUM_GERACOES
  /\ geracao >= 2
  /\ \E i, j \in 1..Len(populacao) : aptidoes_finais[i] > aptidoes_finais[j]

\* ------------------------------------------------------------------------
\* C6, as claimed: at the end of a run the fitness of the best candidate is at
\* least the fitness of every member of the initial population.

MelhorDominaInicial ==
  pc = "fim" =>
    \A i \in 1..Len(aptidoes_iniciais) :
      calcular_aptidao(heap[melhor_individuo]) >= aptidoes_iniciais[i]

\* C6, amended: at the end of a run the fitness of the best candidate is at
\* least the fitness of every member of the last population; it can be lower
\* than the fitness of a member of the initial population.

MelhorDominaFinal ==
  pc = "fim" =>
    \A i \in 1..Len(populacao) :
      calcular_aptidao(heap[melhor_individuo]) >= calcular_aptidao(heap[populacao[i]])

\* a run ended with a best candidate less fit than a member of the initial
\* population, and fitter than a member of the last one
WitnessPerdeMelhor ==
  /\ pc = "fim"
  /\ \E i \in 1..Len(aptidoes_iniciais) :
       aptidoes_iniciais[i] > calcular_aptidao(heap[melhor_individuo])
  /\ \E i \in 1..Len(populacao) :
       calcular_aptidao(heap[melhor_individuo]) > calcular_aptidao(heap[populacao[i]])

\* ------------------------------------------------------------------------
\* C7: a run with an odd population size or a tournament larger than the
\* population is rejected before the first generation: it does nothing of the
\* generation loop.

Degenerada(c) ==
  c.TAMANHO_POPULACAO % 2 = 1 \/ c.TAMANHO_TORNEIO > c.TAMANHO_POPULACAO

ConfiguracaoRejeitada ==
  Degenerada(config) =>
    /\ avaliacoes = 0
    /\ geracao = 0
    /\ pc \in {"avaliar", "erro"}
    /\ Len(populacao) = config.TAMANHO_POPULACAO

\* ------------------------------------------------------------------------
\* C8: from the evaluation of a generation until populacao is replaced, no
\* chromosome of populacao changes: aptidoes[i] is the fitness of populacao[i].

PopulacaoCorrenteIntacta ==
  pc \in {"selecao1", "selecao2", "cruzamento", "mutacao1", "mutacao2", "substituir"} =>
    aptidoes = AvaliarPopulacao(heap, populacao)

\* ------------------------------------------------------------------------
\* C9: mutating the second child of a pair does not change the first, and no
\* step of a generation changes a chromosome already appended to
\* nova_populacao.

FilhosIndependentes ==
  [][/\ pc = "mutacao2" => heap'[filho1] = heap[filho1]
     /\ pc \in {"selecao1", "selecao2", "cruzamento", "mutacao1", "mutacao2"} =>
          \A k \in 1..Len(nova_populacao) :
            heap'[nova_populacao[k]] = heap[nova_populacao[k]]]_vars

\* ------------------------------------------------------------------------
\* C10: at every point of a run every chromosome has 3 * NUM_BOBINAS genes and
\* every radius gene of it is at least RAIO_MINIMO.

RaiosNoMinimo ==
  \A r \in 1..Len(heap) :
    /\ Len(heap[r]) = 3 * NUM_BOBINAS
    /\ \A k \in 1..Len(heap[r]) : (k - 1) % 3 = 0 => heap[r][k] >= RAIO_MINIMO

\* a run ended in which a crossover recombined and a mutation perturbed a gene,
\* with a radius gene of the last population at the minimum
WitnessRaios ==
  /\ pc = "fim"
  /\ mutacoes >= 1
  /\ cruzamentos >= 1
  /\ \E i \in 1..Len(populacao) : \E b \in 1..NUM_BOBINAS :
       heap[populacao[i]][3 * b - 2] = RAIO_MINIMO

====
